---- MODULE Spec2Model ----
(***************************************************************************)
(* A model of auto-sorter.py: a watchdog handler (EnhancedDownloadSorter)  *)
(* that receives created/modified events for the Downloads folder and,     *)
(* one event at a time, debounces, filters, waits for the file to become   *)
(* stable, classifies it by extension and moves it into the category's     *)
(* destination folder.                                                     *)
(*                                                                         *)
(* File names are sequences of one-character strings, so that lower(),     *)
(* the substring test, endswith(), split(".") and os.path.splitext are     *)
(* computed character by character as Python computes them.  Time is the   *)
(* wall clock in whole seconds.                                            *)
(***************************************************************************)
EXTENDS Integers, Sequences, FiniteSets, TLC

(***************************************************************************)
(* Bounds of the model (not program constants).                            *)
(***************************************************************************)
\* how many filesystem operations the environment performs in one run
MaxEnvOps == 3
\* events waiting in the observer's queue
MaxQueue == 2

(***************************************************************************)
(* Program constants.                                                      *)
(***************************************************************************)
\* _process_event: "if now - last_time < 10"
debounce_seconds == 10
\* sort_file: max_retries = 7
max_retries == 7
\* sort_file: is_file_complete(file_path, check_interval=1, checks=3)
check_interval == 1
checks == 3
\* sort_file: time.sleep(2) after a failed stability attempt
retry_sleep == 2
\* is_file_complete: "if stable_count >= 2"
stable_needed == 2
\* NOTIFICATIONS["summary_interval_minutes"]
summary_interval_minutes == 60

SECONDS_PER_DAY == 24 * 3600
BYTES_PER_KB == 1024

\* Python's None
None == "None"
\* safe_move's None, where a path is expected
NoPath == <<>>
\* the outcome of BASE_DESTINATION[category] when it raises KeyError
KeyError == <<"KeyError">>
\* what a poll records when os.stat raises
Missing == <<"missing">>
\* an absent directory entry
NoFile == [kind |-> "none", size |-> 0, mtime |-> 0, id |-> 0]

(***************************************************************************)
(* Strings as sequences of characters.                                     *)
(***************************************************************************)
UpperToLower ==
  [A |-> "a", B |-> "b", C |-> "c", D |-> "d", E |-> "e", F |-> "f", G |-> "g",
   H |-> "h", I |-> "i", J |-> "j", K |-> "k", L |-> "l", M |-> "m", N |-> "n",
   O |-> "o", P |-> "p", Q |-> "q", R |-> "r", S |-> "s", T |-> "t", U |-> "u",
   V |-> "v", W |-> "w", X |-> "x", Y |-> "y", Z |-> "z"]

\* str.lower() on one character
LowerChar(c) == IF c \in DOMAIN UpperToLower THEN UpperToLower[c] ELSE c

\* str.lower()
lower(s) == [i \in 1..Len(s) |-> LowerChar(s[i])]

\* Python's "sub in s" for strings
Contains(sub, s) ==
  \E k \in 0..(Len(s) - Len(sub)) : SubSeq(s, k + 1, k + Len(sub)) = sub

\* str.endswith(suffix)
endswith(s, suffix) ==
  /\ Len(suffix) <= Len(s)
  /\ SubSeq(s, Len(s) - Len(suffix) + 1, Len(s)) = suffix

\* the positions of "." in s
DotPositions(s) == {i \in 1..Len(s) : s[i] = "."}

\* the greatest element of a non-empty set of integers
Maximum(S) == CHOOSE x \in S : \A y \in S : y <= x

\* the least element of a non-empty set of integers
Minimum(S) == CHOOSE x \in S : \A y \in S : x <= y

\* filename.split(".")[-1]: the text after the last "." (all of it without one)
LastDotPart(s) ==
  IF DotPositions(s) = {} THEN s
  ELSE SubSeq(s, Maximum(DotPositions(s)) + 1, Len(s))

\* os.path.splitext(filename): the extension starts at the last "." unless only
\* dots precede it
splitext(s) ==
  IF DotPositions(s) = {} THEN [base |-> s, ext |-> <<>>]
  ELSE LET d == Maximum(DotPositions(s))
       IN  IF \E i \in 1..(d - 1) : s[i] # "."
           THEN [base |-> SubSeq(s, 1, d - 1), ext |-> SubSeq(s, d, Len(s))]
           ELSE [base |-> s, ext |-> <<>>]

Digits == <<"0", "1", "2", "3", "4", "5", "6", "7", "8", "9">>

\* str(n) for n >= 0, as in the f-string f"{base}({counter}){ext}"
RECURSIVE str(_)
str(n) == IF n < 10 THEN <<Digits[n + 1]>>
          ELSE str(n \div 10) \o <<Digits[(n % 10) + 1]>>

(***************************************************************************)
(* Configuration: the module-level globals read from download_sorter.json. *)
(***************************************************************************)
BASE_DESTINATION ==
  [Documents |-> "~/Documents", Pictures |-> "~/Pictures", Videos |-> "~/Videos",
   Music |-> "~/Music", Archives |-> "~/Archives", Programs |-> "~/Software"]

\* ENHANCED_DEFAULT_CONFIG["extensions"], in the order the dictionary lists them
DEFAULT_EXTENSIONS ==
  << [cat |-> "Documents", extensions |->
       << <<"p","d","f">>, <<"d","o","c","x">>, <<"t","x","t">>,
          <<"x","l","s","x">>, <<"p","p","t","x">>, <<"d","o","c">>,
          <<"r","t","f">>, <<"o","d","t">>, <<"c","s","v">> >>],
     [cat |-> "Pictures", extensions |->
       << <<"j","p","g">>, <<"j","p","e","g">>, <<"p","n","g">>,
          <<"g","i","f">>, <<"b","m","p">>, <<"s","v","g">>,
          <<"w","e","b","p">>, <<"t","i","f","f">>, <<"i","c","o">> >>],
     [cat |-> "Videos", extensions |->
       << <<"m","p","4">>, <<"m","k","v">>, <<"a","v","i">>,
          <<"m","o","v">>, <<"w","m","v">>, <<"f","l","v">>,
          <<"w","e","b","m">>, <<"m","4","v">>, <<"3","g","p">> >>],
     [cat |-> "Music", extensions |->
       << <<"m","p","3">>, <<"w","a","v">>, <<"f","l","a","c">>,
          <<"a","a","c">>, <<"o","g","g">>, <<"w","m","a">>,
          <<"m","4","a">> >>],
     [cat |-> "Archives", extensions |->
       << <<"z","i","p">>, <<"r","a","r">>, <<"7","z">>, <<"t","a","r">>,
          <<"g","z">>, <<"b","z","2">>, <<"x","z">> >>],
     [cat |-> "Programs", extensions |->
       << <<"e","x","e">>, <<"m","s","i">>, <<"d","e","b">>,
          <<"r","p","m">>, <<"d","m","g">>, <<"p","k","g">>,
          <<"a","p","p","i","m","a","g","e">> >>] >>

\* a user's download_sorter.json: "pdf" is listed under two categories and
\* "Ebooks" has no entry in BASE_DESTINATION
CUSTOM_EXTENSIONS ==
  << [cat |-> "Ebooks", extensions |-> << <<"e","p","u","b">> >>],
     [cat |-> "Archives", extensions |-> << <<"g","z">>, <<"p","d","f">> >>],
     [cat |-> "Documents", extensions |-> << <<"p","d","f">>, <<"g","z">> >>] >>

\* ENHANCED_DEFAULT_CONFIG["settings"]["exclude_patterns"]
DEFAULT_EXCLUDE_PATTERNS ==
  << <<".","D","S","_","S","t","o","r","e">>,
     <<"T","h","u","m","b","s",".","d","b">>,
     <<"d","e","s","k","t","o","p",".","i","n","i">> >>

\* ENHANCED_DEFAULT_CONFIG["settings"]
DEFAULT_SETTINGS ==
  [organize_by_date |-> FALSE, duplicate_action |-> "rename",
   min_file_size_kb |-> 0, max_file_age_days |-> 0, dry_run |-> FALSE,
   exclude_patterns |-> DEFAULT_EXCLUDE_PATTERNS]

\* the suffixes sort_file treats as temporary downloads
TEMP_SUFFIXES ==
  { <<".","c","r","d","o","w","n","l","o","a","d">>, <<".","p","a","r","t">>,
    <<".","t","m","p">>, <<".","t","e","m","p">> }

\* datetime.now().strftime("%Y/%m"): one value for the length of a run
date_folder == "2026/11"

(***************************************************************************)
(* The names the environment may deliver, the sizes and ages of the files, *)
(* and the configurations a run may start with.                            *)
(***************************************************************************)
N_a_pdf == <<"a",".","p","d","f">>
N_a1_pdf == <<"a","(","1",")",".","p","d","f">>
N_B_PNG == <<"B",".","P","N","G">>
N_noext == <<"n","o","e","x","t">>
N_x_tar_gz == <<"x",".","t","a","r",".","g","z">>
N_x_zzz == <<"x",".","z","z","z">>
N_c_TMP == <<"c",".","T","M","P">>
N_ds_store_pdf == <<"M","y",".","d","s","_","s","t","o","r","e",".","p","d","f">>
N_dot_pdf == <<".","p","d","f">>
N_e_epub == <<"e",".","e","p","u","b">>

\* a partial download, and a finished one of 2 MB
SmallSize == BYTES_PER_KB \div 2
FullSize == 2 * 1024 * 1024

\* how far back the mtime of an old file lies when it arrives
OldAge == 2 * SECONDS_PER_DAY

\* what can arrive: a freshly written file, a file that keeps its old mtime,
\* a directory
Fresh(size) == [kind |-> "file", size |-> size, old |-> FALSE]
Old(size) == [kind |-> "file", size |-> size, old |-> TRUE]
Directory == [kind |-> "dir", size |-> SmallSize, old |-> FALSE]

\* a run starts with one of these: the settings and extension table loaded
\* from download_sorter.json, the destination folders the process cannot
\* write to, and the names and kinds of entry that will show up in the
\* Downloads folder
Scenarios ==
  { [settings |-> DEFAULT_SETTINGS, extensions |-> DEFAULT_EXTENSIONS,
     readonly |-> {}, names |-> {N_a_pdf, N_a1_pdf},
     arrivals |-> {Fresh(FullSize)}],
    [settings |-> DEFAULT_SETTINGS, extensions |-> DEFAULT_EXTENSIONS,
     readonly |-> {}, names |-> {N_B_PNG, N_noext},
     arrivals |-> {Fresh(FullSize), Directory}],
    [settings |-> DEFAULT_SETTINGS, extensions |-> DEFAULT_EXTENSIONS,
     readonly |-> {}, names |-> {N_x_tar_gz, N_x_zzz},
     arrivals |-> {Fresh(SmallSize), Fresh(FullSize)}],
    [settings |-> DEFAULT_SETTINGS, extensions |-> DEFAULT_EXTENSIONS,
     readonly |-> {}, names |-> {N_c_TMP, N_ds_store_pdf},
     arrivals |-> {Fresh(FullSize)}],
    [settings |-> DEFAULT_SETTINGS, extensions |-> DEFAULT_EXTENSIONS,
     readonly |-> {<<"~/Documents">>}, names |-> {N_a_pdf, N_B_PNG},
     arrivals |-> {Fresh(FullSize)}],
    [settings |-> [DEFAULT_SETTINGS EXCEPT !.duplicate_action = "skip"],
     extensions |-> DEFAULT_EXTENSIONS,
     readonly |-> {}, names |-> {N_a_pdf, N_dot_pdf},
     arrivals |-> {Fresh(FullSize)}],
    [settings |-> [DEFAULT_SETTINGS EXCEPT !.duplicate_action = "replace"],
     extensions |-> DEFAULT_EXTENSIONS,
     readonly |-> {}, names |-> {N_a_pdf, N_x_zzz},
     arrivals |-> {Fresh(FullSize)}],
    [settings |-> [DEFAULT_SETTINGS EXCEPT !.dry_run = TRUE],
     extensions |-> DEFAULT_EXTENSIONS,
     readonly |-> {}, names |-> {N_a_pdf, N_noext},
     arrivals |-> {Fresh(FullSize)}],
    [settings |-> [DEFAULT_SETTINGS EXCEPT !.min_file_size_kb = 1,
                                           !.max_file_age_days = 1],
     extensions |-> DEFAULT_EXTENSIONS,
     readonly |-> {}, names |-> {N_a_pdf, N_dot_pdf},
     arrivals |-> {Fresh(SmallSize), Fresh(FullSize), Old(FullSize)}],
    [settings |-> [DEFAULT_SETTINGS EXCEPT !.organize_by_date = TRUE],
     extensions |-> CUSTOM_EXTENSIONS,
     readonly |-> {}, names |-> {N_a_pdf, N_e_epub},
     arrivals |-> {Fresh(FullSize)}] }

\* every folder get_destination_path can return
Folders ==
  { <<BASE_DESTINATION[c]>> : c \in DOMAIN BASE_DESTINATION } \cup
  { <<BASE_DESTINATION[c], date_folder>> : c \in DOMAIN BASE_DESTINATION }

(***************************************************************************)
(* State.                                                                  *)
(***************************************************************************)
VARIABLES
  SETTINGS,            \* CONFIG["settings"]
  EXTENSIONS,          \* CONFIG["extensions"], a sequence in dictionary order
  readonly,            \* the destination folders a move into raises an error
  arriving,            \* the names the environment uses in this run
  arrivals,            \* the kinds of entry that arrive in this run
  clock,               \* time.time(), in seconds
  downloads,           \* DOWNLOADS_FOLDER: name -> entry, or NoFile
  dest,                \* each destination folder: a function name -> entry
  queue,               \* the observer's queue of events not yet dispatched
  recently_processed,  \* self._recently_processed: path -> time
  last_summary,        \* self.last_summary
  stats,               \* self.stats.stats
  pc,                  \* "idle", or "poll" inside sort_file's stability wait
  file_path,           \* the path sort_file was called with
  attempt,             \* sort_file's loop variable
  polls,               \* how many polls is_file_complete has finished
  stable_count,        \* is_file_complete's locals
  prev_size,
  prev_mtime,
  envOps,              \* the filesystem operations the environment has done
  outcome,             \* how the last event handled ended
  observed,            \* what the polls of the last is_file_complete call saw
  complete,            \* what the last is_file_complete call returned
  sort_calls,          \* path -> the times at which sort_file was called
  moves                \* how many times shutil.move has moved a file

vars ==
  << SETTINGS, EXTENSIONS, readonly, arriving, arrivals, clock, downloads, dest, queue,
     recently_processed, last_summary, stats, pc, file_path, attempt, polls,
     stable_count, prev_size, prev_mtime, envOps, outcome, observed, complete,
     sort_calls, moves >>

config == << SETTINGS, EXTENSIONS, readonly, arriving, arrivals >>
locals == << file_path, attempt, polls, stable_count, prev_size, prev_mtime >>

(***************************************************************************)
(* Dictionaries and directory listings: functions on a finite set of keys. *)
(***************************************************************************)
EmptyDict == [k \in {} |-> 0]

\* dict.get(key, default)
Get(d, key, default) == IF key \in DOMAIN d THEN d[key] ELSE default

\* d[key] = value; also what a rename onto an existing name leaves behind
Put(d, key, value) ==
  [k \in DOMAIN d \cup {key} |-> IF k = key THEN value ELSE d[k]]

\* the directory without the entry of that name
Without(d, key) == [k \in DOMAIN d \ {key} |-> d[k]]

\* the sum of the values of a dictionary of numbers
RECURSIVE SumValues(_)
SumValues(d) ==
  IF DOMAIN d = {} THEN 0
  ELSE LET k == CHOOSE x \in DOMAIN d : TRUE
       IN  d[k] + SumValues(Without(d, k))

(***************************************************************************)
(* SorterStats.                                                            *)
(***************************************************************************)
\* load_stats with no stats file: default_stats (total_size_moved_mb is kept
\* in hundredths of a megabyte, the precision file_size_mb is rounded to)
default_stats ==
  [total_files_processed |-> 0, files_by_category |-> EmptyDict,
   total_size_moved_mb |-> 0, errors |-> 0]

\* a changed record_file_moved: the per-category count is set, not added to
record_file_moved_resetting(s, category, file_size_mb) ==
  [s EXCEPT !.total_files_processed = @ + 1,
            !.files_by_category = Put(@, category, 1),
            !.total_size_moved_mb = @ + file_size_mb]

record_file_moved(s, category, file_size_mb) ==
  [s EXCEPT !.total_files_processed = @ + 1,
            !.files_by_category =
               Put(@, category, Get(@, category, 0) + 1),
            !.total_size_moved_mb = @ + file_size_mb]

record_error(s) == [s EXCEPT !.errors = @ + 1]

(***************************************************************************)
(* Helper functions.                                                       *)
(***************************************************************************)
\* should_exclude_file(filename)
should_exclude_file(filename) ==
  \E i \in 1..Len(SETTINGS.exclude_patterns) :
     Contains(lower(SETTINGS.exclude_patterns[i]), lower(filename))

\* sort_file: filename.lower().endswith((".crdownload", ".part", ".tmp", ".temp"))
is_temporary(filename) ==
  \E suffix \in TEMP_SUFFIXES : endswith(lower(filename), suffix)

\* sort_file: max_age_days > 0 and (time.time() - mtime) / (24 * 3600) > max_age_days
too_old(now, mtime) ==
  /\ SETTINGS.max_file_age_days > 0
  /\ now - mtime > SETTINGS.max_file_age_days * SECONDS_PER_DAY

\* sort_file: min_size > 0 and os.path.getsize(file_path) / 1024 < min_size
too_small(size) ==
  /\ SETTINGS.min_file_size_kb > 0
  /\ size < SETTINGS.min_file_size_kb * BYTES_PER_KB

\* sort_file: file_ext = filename.split(".")[-1].lower()
file_ext_of(filename) == lower(LastDotPart(filename))

\* whether "file_ext in extensions" for the i-th entry of EXTENSIONS
Lists(i, file_ext) ==
  \E j \in 1..Len(EXTENSIONS[i].extensions) :
     EXTENSIONS[i].extensions[j] = file_ext

\* a changed sort_file: the loop over EXTENSIONS.items() has no break
category_of_last(file_ext) ==
  LET hits == {i \in 1..Len(EXTENSIONS) : Lists(i, file_ext)}
  IN  IF hits = {} THEN None ELSE EXTENSIONS[Maximum(hits)].cat

\* sort_file: the first category of EXTENSIONS.items() that lists file_ext
category_of(file_ext) ==
  LET hits == {i \in 1..Len(EXTENSIONS) : Lists(i, file_ext)}
  IN  IF hits = {} THEN None ELSE EXTENSIONS[Minimum(hits)].cat

\* get_destination_path(category, filename)
get_destination_path(category) ==
  IF category \notin DOMAIN BASE_DESTINATION THEN KeyError
  ELSE IF SETTINGS.organize_by_date
       THEN <<BASE_DESTINATION[category], date_folder>>
       ELSE <<BASE_DESTINATION[category]>>

\* sort_file: round(file_size_kb / 1024, 2), in hundredths of a megabyte
file_size_mb_of(size) ==
  (2 * 100 * size + BYTES_PER_KB * BYTES_PER_KB)
     \div (2 * BYTES_PER_KB * BYTES_PER_KB)

\* safe_move: f"{base}({counter}){ext}"
numbered(base, counter, ext) == base \o <<"(">> \o str(counter) \o <<")">> \o ext

\* safe_move: the while loop of the rename branch, from dest_path and counter on
RECURSIVE rename_loop(_, _, _, _)
rename_loop(listing, filename, dest_name, counter) ==
  IF dest_name \in DOMAIN listing
  THEN rename_loop(listing, filename,
                   numbered(splitext(filename).base, counter,
                            splitext(filename).ext),
                   counter + 1)
  ELSE dest_name

\* a changed safe_move: "if" in place of "while", so only (1) is tried
rename_once(listing, filename) ==
  numbered(splitext(filename).base, 1, splitext(filename).ext)

\* safe_move: the name the rename branch stores the file under
rename_target(listing, filename) == rename_loop(listing, filename, filename, 1)

\* a changed safe_move: "skip" is not recognised and falls through to the
\* rename branch
safe_move_without_skip(filename, entry, listing, duplicate_action) ==
  IF filename \notin DOMAIN listing
  THEN [final |-> filename, listing |-> Put(listing, filename, entry)]
  ELSE IF duplicate_action = "replace"
  THEN [final |-> filename,
        listing |-> Put(Without(listing, filename), filename, entry)]
  ELSE LET target == rename_target(listing, filename)
       IN  [final |-> target, listing |-> Put(listing, target, entry)]

\* safe_move(src, dest_folder, duplicate_action) on the listing of dest_folder:
\* the name returned (None when skipped) and the listing afterwards
safe_move(filename, entry, listing, duplicate_action) ==
  IF filename \notin DOMAIN listing
  THEN [final |-> filename, listing |-> Put(listing, filename, entry)]
  ELSE IF duplicate_action = "skip"
  THEN [final |-> NoPath, listing |-> listing]
  ELSE IF duplicate_action = "replace"
  THEN [final |-> filename,
        listing |-> Put(Without(listing, filename), filename, entry)]
  ELSE LET target == rename_target(listing, filename)
       IN  [final |-> target, listing |-> Put(listing, target, entry)]

\* _process_event: "if now - last_time < 10: return"
debounced(now, last_time) == now - last_time < debounce_seconds

\* a changed _process_event: one last-seen time shared by every path
debounce_key_shared(path) == NoPath

\* _process_event: the key of the last-seen map
debounce_key(path) == path

\* a changed is_file_complete: one repeated observation is taken for stability
stable_after_one(count) == count >= 1

\* is_file_complete: "if stable_count >= 2: return True"
stable_enough(count) == count >= stable_needed

\* a changed sort_file: the dry-run test is gone
dry_run_ignored == FALSE

\* sort_file: "if SETTINGS.get('dry_run', False)"
dry_run_enabled == SETTINGS.dry_run

\* os.path.isfile
isfile(entry) == entry.kind = "file"

(***************************************************************************)
(* Initial state: the handler has just been constructed.                   *)
(***************************************************************************)
Init ==
  /\ \E sc \in Scenarios :
        /\ SETTINGS = sc.settings
        /\ EXTENSIONS = sc.extensions
        /\ readonly = sc.readonly
        /\ arriving = sc.names
        /\ arrivals = sc.arrivals
  \* time.time() is far more than the debounce window past the epoch
  /\ clock = debounce_seconds
  /\ downloads = [n \in arriving |-> NoFile]
  /\ dest = [f \in Folders |-> EmptyDict]
  /\ queue = <<>>
  /\ recently_processed = EmptyDict
  /\ last_summary = clock
  /\ stats = default_stats
  /\ pc = "idle"
  /\ file_path = NoPath
  /\ attempt = 0
  /\ polls = 0
  /\ stable_count = 0
  /\ prev_size = -1
  /\ prev_mtime = -1
  /\ envOps = 0
  /\ outcome = "none"
  /\ observed = <<>>
  /\ complete = "none"
  /\ sort_calls = EmptyDict
  /\ moves = 0

(***************************************************************************)
(* The environment: other programs writing into the Downloads folder, and  *)
(* the observer thread queueing one event for each change.                 *)
(***************************************************************************)
sorter == << recently_processed, last_summary, stats, pc, locals, outcome,
             observed, complete, sort_calls, moves >>

\* a file or a directory appears: on_created
Create(n, a) ==
  /\ envOps < MaxEnvOps
  /\ Len(queue) < MaxQueue
  /\ downloads[n] = NoFile
  /\ downloads' = [downloads EXCEPT ![n] =
        [kind |-> a.kind, size |-> a.size,
         mtime |-> IF a.old THEN clock - OldAge ELSE clock, id |-> envOps + 1]]
  /\ queue' = Append(queue, [src_path |-> n, is_directory |-> a.kind = "dir"])
  /\ envOps' = envOps + 1
  /\ UNCHANGED << config, clock, dest, sorter >>

\* a file is written to, which changes what os.stat reports: on_modified
Modify(n, size) ==
  /\ envOps < MaxEnvOps
  /\ Len(queue) < MaxQueue
  /\ isfile(downloads[n])
  /\ << size, clock >> # << downloads[n].size, downloads[n].mtime >>
  /\ downloads' = [downloads EXCEPT ![n].size = size, ![n].mtime = clock]
  /\ queue' = Append(queue, [src_path |-> n, is_directory |-> FALSE])
  /\ envOps' = envOps + 1
  /\ UNCHANGED << config, clock, dest, sorter >>

\* a file or directory is removed: on_deleted, which the handler inherits
\* as a no-op
Remove(n) ==
  /\ envOps < MaxEnvOps
  /\ downloads[n] # NoFile
  /\ downloads' = [downloads EXCEPT ![n] = NoFile]
  /\ envOps' = envOps + 1
  /\ UNCHANGED << config, clock, dest, queue, sorter >>

\* the main thread's "while True: time.sleep(1)" with nothing to dispatch.
\* Idle time matters to the handler only through the debounce test, so the
\* wait runs to the last second inside some path's window, or to its end
Tick ==
  /\ pc = "idle"
  /\ queue = <<>>
  /\ \E key \in DOMAIN recently_processed :
       \E d \in {debounce_seconds - 1, debounce_seconds} :
          /\ recently_processed[key] + d > clock
          /\ clock' = recently_processed[key] + d
  /\ UNCHANGED << config, downloads, dest, queue, envOps, sorter >>

(***************************************************************************)
(* EnhancedDownloadSorter.                                                 *)
(***************************************************************************)
\* sort_file returns: the locals of the call are gone
Return(how) ==
  /\ outcome' = how
  /\ pc' = "idle"
  /\ file_path' = NoPath
  /\ attempt' = 0
  /\ polls' = 0
  /\ stable_count' = 0
  /\ prev_size' = -1
  /\ prev_mtime' = -1

\* sort_file from "Check minimum file size" to its end, reached when the
\* stability wait broke out of its loop
sort_file_rest ==
  LET filename == file_path
      entry == downloads[file_path]
      category == category_of(file_ext_of(filename))
      dest_folder == get_destination_path(category)
      moved == safe_move(filename, entry, dest[dest_folder],
                         SETTINGS.duplicate_action)
      quiet == UNCHANGED << downloads, dest, stats, moves >>
      failed == /\ stats' = record_error(stats)
                /\ UNCHANGED << downloads, dest, moves >>
  IN  IF entry = NoFile THEN Return("size_error") /\ quiet
      ELSE IF too_small(entry.size) THEN Return("small") /\ quiet
      ELSE IF DotPositions(filename) = {} THEN Return("no_extension") /\ quiet
      ELSE IF category = None THEN Return("unknown_type") /\ quiet
      ELSE IF dest_folder = KeyError THEN Return("error") /\ failed
      ELSE IF dry_run_enabled THEN Return("dry_run") /\ quiet
      ELSE IF moved.final = NoPath THEN Return("skipped") /\ quiet
      ELSE IF dest_folder \in readonly THEN Return("error") /\ failed
      ELSE /\ Return("moved")
           /\ downloads' = [downloads EXCEPT ![file_path] = NoFile]
           /\ dest' = [dest EXCEPT ![dest_folder] = moved.listing]
           /\ stats' = record_file_moved(stats, category,
                                         file_size_mb_of(entry.size))
           /\ moves' = moves + 1

\* a changed sort_file: the retry loop never runs out
never_last_attempt(n) == FALSE

\* sort_file: "for attempt in range(1, max_retries + 1)" has run out
last_attempt(n) == n = max_retries

\* sort_file: a stability attempt found the file not complete; sleep, then
\* the next attempt, or the loop's else branch after the last one
attempt_failed(slept) ==
  /\ clock' = clock + slept + retry_sleep
  /\ complete' = "False"
  /\ IF last_attempt(attempt)
     THEN /\ Return("unstable")
          /\ stats' = record_error(stats)
     ELSE /\ attempt' = attempt + 1
          /\ polls' = 0
          /\ stable_count' = 0
          /\ prev_size' = -1
          /\ prev_mtime' = -1
          /\ UNCHANGED << outcome, pc, file_path, stats >>
  /\ UNCHANGED << downloads, dest, moves >>

\* one iteration of is_file_complete's loop, with whatever of sort_file
\* follows it without waiting
Poll ==
  /\ pc = "poll"
  /\ LET entry == downloads[file_path]
         same == entry.size = prev_size /\ entry.mtime = prev_mtime
         count == IF same THEN stable_count + 1 ELSE 0
     IN  IF entry = NoFile
         THEN \* os.stat raises FileNotFoundError
              /\ observed' = Append(IF polls = 0 THEN <<>> ELSE observed, Missing)
              /\ attempt_failed(0)
         ELSE /\ observed' = Append(IF polls = 0 THEN <<>> ELSE observed,
                                    << entry.size, entry.mtime >>)
              /\ IF stable_enough(count)
                 THEN /\ complete' = "True"
                      /\ clock' = clock
                      /\ sort_file_rest
                 ELSE IF polls + 1 = checks
                 THEN attempt_failed(check_interval)
                 ELSE /\ clock' = clock + check_interval
                      /\ polls' = polls + 1
                      /\ stable_count' = count
                      /\ prev_size' = IF same THEN prev_size ELSE entry.size
                      /\ prev_mtime' = IF same THEN prev_mtime ELSE entry.mtime
                      /\ complete' = "running"
                      /\ UNCHANGED << outcome, pc, file_path, attempt, stats,
                                      downloads, dest, moves >>
  /\ UNCHANGED << config, queue, recently_processed, last_summary, envOps,
                  sort_calls >>

\* on_created / on_modified -> _process_event -> sort_file up to the
\* stability wait
HandleEvent ==
  /\ pc = "idle"
  /\ queue # <<>>
  /\ LET event == Head(queue)
         path == event.src_path
         now == clock
         entry == downloads[path]
         key == debounce_key(path)
         back == /\ pc' = "idle"
                 /\ UNCHANGED << locals, observed, complete >>
     IN  /\ queue' = Tail(queue)
         /\ IF event.is_directory
            THEN /\ outcome' = "directory" /\ back
                 /\ UNCHANGED << recently_processed, last_summary, sort_calls >>
            ELSE /\ last_summary' =
                      IF now - last_summary > summary_interval_minutes * 60
                      THEN now ELSE last_summary
                 /\ IF debounced(now, Get(recently_processed, key, 0))
                    THEN /\ outcome' = "debounced" /\ back
                         /\ UNCHANGED << recently_processed, sort_calls >>
                    ELSE /\ recently_processed' = Put(recently_processed, key, now)
                         /\ sort_calls' = Put(sort_calls, path,
                               Append(Get(sort_calls, path, <<>>), now))
                         /\ IF ~isfile(entry)
                            THEN outcome' = "not_a_file" /\ back
                            ELSE IF should_exclude_file(path)
                            THEN outcome' = "excluded" /\ back
                            ELSE IF is_temporary(path)
                            THEN outcome' = "temporary" /\ back
                            ELSE IF too_old(now, entry.mtime)
                            THEN outcome' = "old" /\ back
                            ELSE /\ outcome' = "waiting"
                                 /\ pc' = "poll"
                                 /\ file_path' = path
                                 /\ attempt' = 1
                                 /\ polls' = 0
                                 /\ stable_count' = 0
                                 /\ prev_size' = -1
                                 /\ prev_mtime' = -1
                                 /\ observed' = <<>>
                                 /\ complete' = "running"
  /\ UNCHANGED << config, clock, downloads, dest, stats, envOps, moves >>

Next ==
  \/ \E n \in arriving, a \in arrivals : Create(n, a)
  \/ \E n \in arriving, a \in arrivals : Modify(n, a.size)
  \/ \E n \in arriving : Remove(n)
  \/ Tick
  \/ HandleEvent
  \/ Poll

Spec == Init /\ [][Next]_vars

(***************************************************************************)
(* Which step of the program a transition is.                              *)
(***************************************************************************)
\* a step of is_file_complete / sort_file: while the handler waits, only it
\* moves the clock or ends the wait
PollStep == pc = "poll" /\ (clock' # clock \/ pc' = "idle")

\* the handler takes an event off the queue
HandleStep == pc = "idle" /\ Len(queue') < Len(queue)

\* a step of the handler, as opposed to one of the environment or the clock
SorterStep == PollStep \/ HandleStep

(***************************************************************************)
(* C7: is_file_complete with checks=3 returns True exactly when all three  *)
(* polls saw the same (size, mtime); a difference between two consecutive  *)
(* polls, or a poll at which the file is missing, makes it return False.   *)
(***************************************************************************)
AllPollsAgree ==
  /\ Len(observed) = checks
  /\ \A i \in 1..Len(observed) : observed[i] # Missing
  /\ \A i \in 1..(Len(observed) - 1) : observed[i] = observed[i + 1]

\* C7: a file is complete exactly when three polls in a row saw it present with the same size and modification time
C7_CompleteIffThreeEqualPolls ==
  /\ complete = "True" => AllPollsAgree
  /\ complete = "False" => ~AllPollsAgree
  /\ complete = "False" =>
        \/ observed[Len(observed)] = Missing
        \/ /\ Len(observed) = checks
           /\ \E i \in 1..(checks - 1) : observed[i] # observed[i + 1]

\* the file changed between the first two polls and then stayed the same
C7_Witness ==
  /\ complete = "False"
  /\ Len(observed) = checks
  /\ observed[1] # observed[2]
  /\ observed[2] = observed[3]
  /\ observed[3] # Missing

(***************************************************************************)
(* C8: sort_file always terminates: at most 7 stability attempts of at     *)
(* most 3 polls each; when none of the 7 attempts finds the file stable    *)
(* the file is not moved, errors grows by exactly 1, and                   *)
(* total_files_processed and files_by_category stay as they were.          *)
(***************************************************************************)
C8_Bounds ==
  pc = "poll" =>
     /\ attempt \in 1..max_retries
     /\ polls \in 0..(checks - 1)
     /\ Len(observed) <= checks

\* every step of the wait ends it, starts the next attempt, or is the next
\* poll of this attempt: with the bounds above, at most 7 * 3 steps
C8_Progress ==
  PollStep =>
     \/ pc' = "idle"
     \/ attempt' = attempt + 1 /\ polls' = 0
     \/ attempt' = attempt /\ polls' = polls + 1

C8_GivesUp ==
  (PollStep /\ outcome' = "unstable") =>
     /\ attempt = max_retries
     /\ complete' = "False"
     /\ stats'.errors = stats.errors + 1
     /\ stats'.total_files_processed = stats.total_files_processed
     /\ stats'.files_by_category = stats.files_by_category
     /\ UNCHANGED << downloads, dest, moves >>

\* once no attempt found the file stable, the call has ended in "unstable"
C8_NoMoveWithoutStability ==
  (PollStep /\ pc' = "idle" /\ complete' = "False") => outcome' = "unstable"

\* C8: the stability wait makes at most max_retries attempts of at most three polls each, always advances, and ends without a move and with one error when no attempt succeeds
C8_SortFileTerminates ==
  /\ []C8_Bounds
  /\ [][C8_Progress /\ C8_GivesUp /\ C8_NoMoveWithoutStability]_vars

\* the seventh attempt has failed after an earlier one ran all three polls
C8_Witness ==
  /\ outcome = "unstable"
  /\ pc = "idle"
  /\ stats.errors = 1
  /\ clock >= debounce_seconds + max_retries * retry_sleep + checks * check_interval

(***************************************************************************)
(* C6: debounce.  Two events for one path that both reach sort_file are at *)
(* least 10 seconds apart; an event handled less than 10 seconds after the *)
(* last accepted event for its path is dropped without touching the file,  *)
(* the statistics or the last-seen map; events for other paths never       *)
(* suppress it.                                                            *)
(***************************************************************************)
\* the event the handler is about to take
NextPath == Head(queue).src_path

\* the last time sort_file was called for the path, if it was
InsideWindow(path) ==
  /\ path \in DOMAIN sort_calls
  /\ clock - sort_calls[path][Len(sort_calls[path])] < debounce_seconds

C6_CallsApart ==
  \A path \in DOMAIN sort_calls :
     \A i \in 1..(Len(sort_calls[path]) - 1) :
        sort_calls[path][i + 1] - sort_calls[path][i] >= debounce_seconds

C6_DroppedInsideWindow ==
  (HandleStep /\ ~Head(queue).is_directory /\ InsideWindow(NextPath)) =>
     /\ outcome' = "debounced"
     /\ sort_calls' = sort_calls
     /\ pc' = "idle"
     /\ UNCHANGED << downloads, dest, stats, recently_processed, moves >>

C6_OnlyOwnPathSuppresses ==
  (HandleStep /\ ~Head(queue).is_directory /\ ~InsideWindow(NextPath)) =>
     /\ outcome' # "debounced"
     /\ sort_calls'[NextPath] =
           Append(Get(sort_calls, NextPath, <<>>), clock)

\* C6: an event for a path within debounce_seconds of that path's last accepted event is dropped; other paths are unaffected
C6_Debounce ==
  /\ []C6_CallsApart
  /\ [][C6_DroppedInsideWindow /\ C6_OnlyOwnPathSuppresses]_vars

\* an event has just been dropped, after two different paths had each been
\* accepted inside the other's window
C6_Witness ==
  /\ outcome = "debounced"
  /\ \E p \in DOMAIN sort_calls, q \in DOMAIN sort_calls :
        /\ p # q
        /\ sort_calls[q][1] - sort_calls[p][1] \in 0..(debounce_seconds - 1)

(***************************************************************************)
(* C5: with dry_run enabled no sequence of events makes the sorter move,   *)
(* rename or remove a file, and total_files_processed, files_by_category   *)
(* and total_size_moved_mb never change.                                   *)
(***************************************************************************)
C5_NothingMoved ==
  SETTINGS.dry_run =>
     /\ moves = 0
     /\ \A f \in Folders : dest[f] = EmptyDict
     /\ stats.total_files_processed = 0
     /\ stats.files_by_category = EmptyDict
     /\ stats.total_size_moved_mb = 0

C5_SorterLeavesFiles ==
  (SETTINGS.dry_run /\ SorterStep) => UNCHANGED << downloads, dest >>

\* C5: with dry_run on, no file is ever moved, created in a destination or removed from the watched folder by the sorter
C5_DryRun == []C5_NothingMoved /\ [][C5_SorterLeavesFiles]_vars

\* a sortable file went all the way to the dry-run test
C5_Witness ==
  /\ SETTINGS.dry_run
  /\ outcome = "dry_run"
  /\ \E n \in arriving : isfile(downloads[n]) /\ category_of(file_ext_of(n)) # None

(***************************************************************************)
(* C4: with duplicate_action "skip", when the destination folder already   *)
(* holds a file of that name, safe_move returns None and sort_file leaves  *)
(* the source in place, the destination unchanged, and                     *)
(* total_files_processed, files_by_category, total_size_moved_mb and       *)
(* errors unchanged.                                                       *)
(***************************************************************************)
\* the folder a name is routed to, for a name that has one
FolderFor(filename) == get_destination_path(category_of(file_ext_of(filename)))

\* sort_file got as far as calling safe_move in this step
CallsSafeMove == PollStep /\ outcome' \in {"moved", "skipped"}

C4_Skip ==
  (/\ CallsSafeMove
   /\ SETTINGS.duplicate_action = "skip"
   /\ file_path \in DOMAIN dest[FolderFor(file_path)]) =>
     /\ outcome' = "skipped"
     /\ UNCHANGED << downloads, dest, stats, moves >>

\* C4: in skip mode a move onto a taken name is abandoned: source, destination and statistics stay as they were
C4_SkipLeavesEverything == [][C4_Skip]_vars

C4_Witness ==
  /\ outcome = "skipped"
  /\ \E n \in arriving :
        /\ isfile(downloads[n])
        /\ n \in DOMAIN dest[FolderFor(n)]
        /\ dest[FolderFor(n)][n].id # downloads[n].id

(***************************************************************************)
(* C3: with duplicate_action "rename", safe_move never overwrites or       *)
(* removes a file already in the destination folder: when the name is      *)
(* taken, the file is stored as base(k)ext for the smallest k >= 1 whose   *)
(* name is free; afterwards the source path no longer exists and every     *)
(* file that was in the destination is unchanged.                          *)
(***************************************************************************)
\* sort_file moved the file in this step
MovedStep == PollStep /\ outcome' = "moved"

C3_Rename ==
  (MovedStep /\ SETTINGS.duplicate_action = "rename") =>
     LET changed == {f \in Folders : dest'[f] # dest[f]}
         f == CHOOSE g \in changed : TRUE
         before == dest[f]
         after == dest'[f]
         entry == downloads[file_path]
         parts == splitext(file_path)
         name(k) == numbered(parts.base, k, parts.ext)
         stored(n) == /\ DOMAIN after = DOMAIN before \cup {n}
                      /\ n \notin DOMAIN before
                      /\ after[n] = entry
     IN  /\ Cardinality(changed) = 1
         /\ \A n \in DOMAIN before : n \in DOMAIN after /\ after[n] = before[n]
         /\ downloads'[file_path] = NoFile
         /\ IF file_path \notin DOMAIN before
            THEN stored(file_path)
            ELSE \E k \in 1..(Cardinality(DOMAIN before) + 1) :
                    /\ stored(name(k))
                    /\ \A j \in 1..(k - 1) : name(j) \in DOMAIN before

\* C3: in rename mode a move onto a taken name stores the file under the first free name(k) and keeps every file already there
C3_RenameNeverOverwrites == [][C3_Rename]_vars

\* a.pdf arrived while a.pdf and a(1).pdf were taken, and became a(2).pdf
C3_Witness ==
  /\ outcome = "moved"
  /\ SETTINGS.duplicate_action = "rename"
  /\ DOMAIN dest[<<"~/Documents">>] =
        {N_a_pdf, N_a1_pdf, numbered(<<"a">>, 2, <<".","p","d","f">>)}

(***************************************************************************)
(* C2: whenever sort_file moves a file, the destination folder is that of  *)
(* the first category, in configured order, whose extension list contains  *)
(* the lower-cased text after the last "." of the name.  A file whose name *)
(* has no "." or whose extension is in no category is never moved and      *)
(* changes none of total_files_processed, files_by_category and            *)
(* total_size_moved_mb; errors grows by one when the file does not         *)
(* become stable within the seven attempts, and not otherwise.             *)
(***************************************************************************)
\* the lower-cased text after the last "." of a name that has one
TextAfterLastDot(filename) ==
  LET d == Maximum(DotPositions(filename))
  IN  [k \in 1..(Len(filename) - d) |-> LowerChar(filename[d + k])]

HasNoCategory(filename) ==
  \/ DotPositions(filename) = {}
  \/ \A i \in 1..Len(EXTENSIONS) : ~Lists(i, TextAfterLastDot(filename))

\* the path a step of the handler is about
Handled == IF pc = "poll" THEN file_path ELSE NextPath

C2_Routing ==
  MovedStep =>
     /\ DotPositions(file_path) # {}
     /\ \E i \in 1..Len(EXTENSIONS) :
           /\ Lists(i, TextAfterLastDot(file_path))
           /\ \A j \in 1..(i - 1) : ~Lists(j, TextAfterLastDot(file_path))
           /\ \A f \in Folders :
                 dest'[f] # dest[f] => f[1] = BASE_DESTINATION[EXTENSIONS[i].cat]
     /\ \E f \in Folders : dest'[f] # dest[f]

C2_NoCategoryNotMoved ==
  (SorterStep /\ HasNoCategory(Handled)) =>
     /\ UNCHANGED << downloads, dest, moves >>
     /\ stats'.total_files_processed = stats.total_files_processed
     /\ stats'.files_by_category = stats.files_by_category
     /\ stats'.total_size_moved_mb = stats.total_size_moved_mb

C2_NoCategoryErrors ==
  (SorterStep /\ HasNoCategory(Handled)) =>
     stats'.errors = IF outcome' = "unstable" /\ pc = "poll"
                     THEN stats.errors + 1 ELSE stats.errors

\* C2: the category is the first one listing the lowercased text after the last dot; a file with no category is never moved, and its only statistic is errors + 1 when its stability wait fails
C2_RoutingAmended ==
  [][C2_Routing /\ C2_NoCategoryNotMoved /\ C2_NoCategoryErrors]_vars

\* the claim as it was stated: such a file changes no statistic at all
C2_NoCategoryNoStatistic ==
  (SorterStep /\ HasNoCategory(Handled)) => stats' = stats

\* C2 as stated: a file with no category is never moved and changes no statistic
C2_RoutingAsStated ==
  [][C2_Routing /\ C2_NoCategoryNotMoved /\ C2_NoCategoryNoStatistic]_vars

\* the only file ever handed to sort_file has no "." in its name, and it did
\* not become stable
C2_Witness ==
  /\ outcome = "unstable"
  /\ stats.errors = 1
  /\ DOMAIN sort_calls = {N_noext}

(***************************************************************************)
(* C9: a file is never moved if its name contains an exclude pattern       *)
(* (case-insensitively), ends with .crdownload, .part, .tmp or .temp, is   *)
(* older than max_file_age_days when that is > 0, or is smaller than       *)
(* min_file_size_kb when that is > 0.  The name and age filters run before *)
(* any stability wait, the size filter after it, and none of these skips   *)
(* changes a statistic.                                                    *)
(***************************************************************************)
NameExcluded(filename) ==
  \E i \in 1..Len(SETTINGS.exclude_patterns) :
     LET pattern == SETTINGS.exclude_patterns[i]
     IN  \E k \in 0..(Len(filename) - Len(pattern)) :
            \A j \in 1..Len(pattern) :
               LowerChar(filename[k + j]) = LowerChar(pattern[j])

NameTemporary(filename) ==
  \E suffix \in TEMP_SUFFIXES :
     /\ Len(suffix) <= Len(filename)
     /\ \A j \in 1..Len(suffix) :
           filename[Len(filename) - Len(suffix) + j] = suffix[j]

\* older than max_file_age_days at the given time
OlderThanAllowed(entry, at) ==
  /\ SETTINGS.max_file_age_days > 0
  /\ at - entry.mtime > SETTINGS.max_file_age_days * SECONDS_PER_DAY

SmallerThanAllowed(entry) ==
  /\ SETTINGS.min_file_size_kb > 0
  /\ entry.size < SETTINGS.min_file_size_kb * BYTES_PER_KB

C9_NeverMoved ==
  (SorterStep /\ (downloads' # downloads \/ dest' # dest \/ moves' # moves)) =>
     /\ PollStep
     /\ ~NameExcluded(file_path)
     /\ ~NameTemporary(file_path)
     /\ ~OlderThanAllowed(downloads[file_path], clock)
     /\ ~SmallerThanAllowed(downloads[file_path])

\* a file the name or age filter rejects never enters the stability wait
C9_NameAndAgeBeforeWait ==
  (HandleStep /\ pc' = "poll") =>
     /\ ~NameExcluded(NextPath)
     /\ ~NameTemporary(NextPath)
     /\ ~OlderThanAllowed(downloads[NextPath], clock)

\* the size filter acts only once is_file_complete has returned True
C9_SizeAfterWait ==
  (PollStep /\ complete' = "True" /\ SmallerThanAllowed(downloads[file_path]))
     => outcome' = "small"

C9_SkipsAreQuiet ==
  (SorterStep /\ outcome' \in {"excluded", "temporary", "old", "small"}) =>
     /\ stats' = stats
     /\ UNCHANGED << downloads, dest, moves >>
     /\ outcome' = "small" <=> PollStep /\ complete' = "True"

\* C9: excluded, temporary, too old and too small files are never moved and are skipped without touching the statistics
C9_FiltersAsStated ==
  [][C9_NeverMoved /\ C9_NameAndAgeBeforeWait /\ C9_SizeAfterWait
       /\ C9_SkipsAreQuiet]_vars

(***************************************************************************)
(* C10: starting from empty statistics, total_files_processed equals the   *)
(* sum of the files_by_category counts and the number of files actually    *)
(* moved; each move adds exactly 1 to both, and a move that raises an      *)
(* exception adds exactly 1 to errors and nothing to either.               *)
(***************************************************************************)
C10_Totals ==
  /\ stats.total_files_processed = SumValues(stats.files_by_category)
  /\ stats.total_files_processed = moves

\* the handler took a file out of the Downloads folder in this step
TookFile == SorterStep /\ downloads' # downloads

C10_CountsMoves ==
  /\ TookFile =>
        /\ stats'.total_files_processed = stats.total_files_processed + 1
        /\ SumValues(stats'.files_by_category)
              = SumValues(stats.files_by_category) + 1
        /\ stats'.errors = stats.errors
        /\ dest' # dest
  /\ (SorterStep /\ ~TookFile) =>
        /\ stats'.total_files_processed = stats.total_files_processed
        /\ stats'.files_by_category = stats.files_by_category
        /\ dest' = dest

C10_FailedMove ==
  (PollStep /\ outcome' = "error") =>
     /\ stats'.errors = stats.errors + 1
     /\ stats'.total_files_processed = stats.total_files_processed
     /\ stats'.files_by_category = stats.files_by_category
     /\ UNCHANGED << downloads, dest >>

\* C10: each completed move adds one to the total and to its category and adds the size; each failed one adds one to errors; the total equals the sum over categories
C10_Statistics == []C10_Totals /\ [][C10_CountsMoves /\ C10_FailedMove]_vars

\* two files of one category were moved
C10_Witness ==
  /\ outcome = "moved"
  /\ stats.total_files_processed = 2
  /\ \E c \in DOMAIN stats.files_by_category : stats.files_by_category[c] = 2

(***************************************************************************)
(* C1: every regular file that arrives in the watched folder, belongs to a *)
(* configured category, passes the filters and stops changing is           *)
(* eventually moved (dry_run off, duplicate_action "rename").  Once the    *)
(* handler is idle and no event is left, nothing will move a file that no  *)
(* longer changes, so the claim says that no such file is then still in    *)
(* the Downloads folder.  It is stated here for the default configuration  *)
(* and for runs in which no error was counted.                             *)
(***************************************************************************)
Sortable(n) ==
  /\ isfile(downloads[n])
  /\ ~NameExcluded(n)
  /\ ~NameTemporary(n)
  /\ ~OlderThanAllowed(downloads[n], clock)
  /\ ~SmallerThanAllowed(downloads[n])
  /\ ~HasNoCategory(n)
  /\ category_of(file_ext_of(n)) \in DOMAIN BASE_DESTINATION

Settled == pc = "idle" /\ queue = <<>>

\* C1: once the sorter is idle with nothing queued, every sortable file that arrived in the watched folder has been moved out of it
C1_EveryArrivalSorted ==
  (/\ Settled
   /\ SETTINGS = DEFAULT_SETTINGS
   /\ EXTENSIONS = DEFAULT_EXTENSIONS
   /\ readonly = {}
   /\ stats.errors = 0) =>
     \A n \in arriving : ~Sortable(n)

====
